---- MODULE Spec2Model ----
(***************************************************************************)
(* State-machine model of tsparticles' Container life cycle                *)
(* (engine/src/Core/Container.ts) and of the animation-frame loop it       *)
(* drives.  Every handler of the class is one action; an async method      *)
(* (start, init, refresh, reset, loadTheme) is cut at its await points     *)
(* into segments, and a suspended invocation is an entry of procs.         *)
(***************************************************************************)
EXTENDS Integers, Sequences, FiniteSets, TLC

(* ------------------------------ bounds -------------------------------- *)
\* animation-frame requests that may be outstanding at the host at once
MaxPending == 2
\* async invocations (start / init) that may be suspended at once
MaxProcs == 1
\* click handlers that may be registered
MaxHandlers == 1
\* full turns a hue may be away from 0 before the model stops following it
MaxTurns == 2

(* --------------------------- program constants ------------------------ *)
\* An optional value (a field that may be undefined, an omitted argument) is
\* a sequence: None when undefined, Some(x) otherwise.  Undef stands for an
\* undefined member where every defined one is a string.
None == <<>>
Some(x) == <<x>>
Undef == "undefined"
defaultPathGeneratorKey == "default"
defaultPathGenerator == [generate |-> "dflt", init |-> "dflt", update |-> "dflt"]

\* The engine's plug-ins for this container, in registration order, and the
\* optional hooks each one exposes.  core exposes both variants of the init
\* and start hooks; extra exposes the async init and the sync start only.
EnginePlugins == <<"core", "extra">>
PluginHooks ==
  [core  |-> {"init", "initAsync", "start", "startAsync", "pause", "play",
              "stop", "destroy", "handleClickMode", "particlesSetup"},
   extra |-> {"initAsync", "start", "pause", "play", "stop"}]
\* The hook that throws when it is invoked (an async one: whose promise
\* rejects), if a plug-in has a faulty one.
FaultChoices ==
  {None} \cup {Some(<<g, h>>) : g \in {"core", "extra"},
                                h \in {"init", "initAsync", "start", "startAsync"}}
\* The engine's supported shapes, and the optional hooks of each drawer.
EngineShapes == <<"circle">>
DrawerHooks == [circle |-> {"init", "destroy"}]

\* Keys and generators the callers of addPath / setPath pass in.
PathKeys == {defaultPathGeneratorKey, "curl", "perlin"}
UserGenerator == [generate |-> "usr", init |-> "usr", update |-> "usr"]

\* Option fields the container reads.  Source options are partial: a function
\* on a subset of the keys.  DefaultOptions is what new Options() holds.
DefaultOptions == [autoPlay |-> TRUE, responsive |-> FALSE, number |-> 2]
NoOptions == [k \in {} |-> TRUE]
AutoPlayOff == [k \in {"autoPlay"} |-> FALSE]
Responsive == [k \in {"autoPlay", "responsive"} |-> IF k = "autoPlay" THEN FALSE ELSE TRUE]
SourceChoices == {NoOptions, AutoPlayOff}
ResponsiveChoices == {NoOptions, Responsive}
\* The one responsive breakpoint of the modelled options: on a surface
\* narrower than maxWidth its override (a smaller particle number) is loaded.
Breakpoint == [maxWidth |-> 2, number |-> 1]
Widths == {1, 2}
\* this.fpsLimit, in frames per second; frames closer than FrameInterval (ms)
\* to the last accepted one are not simulated
fpsLimit == 120
FrameInterval == 1000 \div fpsLimit
\* Only differences of times are read, so times are kept relative to the
\* host's current frame: the frame that runs has timestamp HostNow, and a
\* time of the past is negative, down to one FrameInterval ago (anything
\* older is as old).
HostNow == 0

\* ColorUpdater: a hue is kept in units of 1/HueUnit degree, so that the
\* offset * 3.6 of update() is an integer; FullTurn is 360 degrees.
HueUnit == 10
FullTurn == 360 * HueUnit
\* offset * 3.6, in hue units
OffsetStep == 36
\* delta.factor of the frames, and the particles update() is applied to:
\* value is color.value.h (None when color.value is undefined), velocity is
\* color.velocity, enable and offset are options.color.animation's
Factors == {-1, 0, 1, 2}
ParticleChoices ==
  [destroyed : BOOLEAN, spawning : BOOLEAN,
   value : {None, Some(0), Some(FullTurn - 1)},
   velocity : {None, Some(-90 * HueUnit), Some(90 * HueUnit)},
   enable : BOOLEAN,
   offset : {[min |-> 0, max |-> 0], [min |-> 0, max |-> 1]}]
\* the particle of a container whose animation is not looked at
StillParticle ==
  [destroyed |-> FALSE, spawning |-> FALSE, value |-> None, velocity |-> None,
   enable |-> FALSE, offset |-> [min |-> 0, max |-> 0]]

VARIABLES
  destroyed, started, paused, pageHidden, firstStart,
  lastFrameTime, drawAnimationFrame,
  pathGenerators, plugins, drawers,
  options, sourceOptions, initialSourceOptions, actualOptions,
  currentTheme, responsiveMaxWidth,
  particles,        \* number of live particles of the collection
  canvasWidth,      \* canvas.size.width
  hostWidth,        \* width of the host element, read by canvas.resize()
  sizedOnInit,      \* whether canvas.init() takes the host's width already
  listeners,        \* #eventListeners attached
  observing,        \* intersectionObserver observes the element
  inDom,            \* the container is in engine.dom()
  clickHandlers,    \* closures registered by addClickHandler
  taps,             \* touched / touchMoved of each of these closures
  pending,          \* the host's queue of requested animation frames
  procs,            \* suspended async invocations
  faulty,           \* the plug-in hook that throws, if any
  particle          \* the particle ColorUpdater is applied to

cvars == <<destroyed, started, paused, pageHidden, firstStart,
           lastFrameTime, drawAnimationFrame, pathGenerators, plugins, drawers,
           options, sourceOptions, initialSourceOptions, actualOptions,
           currentTheme, responsiveMaxWidth, particles, canvasWidth,
           listeners, observing, inDom, clickHandlers, taps, pending, procs>>
envvars == <<hostWidth, sizedOnInit, faulty>>
vars == <<cvars, envvars, particle>>

(* The state as one record, so that a handler calling another composes.    *)
(* Beside the state, the record carries what the running handler has done  *)
(* so far: ret (the value it returns), sigs (the events it dispatched),    *)
(* sigAt (the flags each event was dispatched under),                      *)
(* hooks (the plug-in, drawer and collaborator hooks it invoked), sched    *)
(* (the animation frames it requested), updated (the particle update       *)
(* ran), frameTime (the lastFrameTime a frame found) and phases (the       *)
(* initialization phases its invocation of init/start has completed) and   *)
(* thrown (the handler ended by an exception that went to its caller).     *)
St ==
  [destroyed |-> destroyed, started |-> started, paused |-> paused,
   pageHidden |-> pageHidden, firstStart |-> firstStart,
   lastFrameTime |-> lastFrameTime, drawAnimationFrame |-> drawAnimationFrame,
   pathGenerators |-> pathGenerators, plugins |-> plugins, drawers |-> drawers,
   options |-> options, sourceOptions |-> sourceOptions,
   initialSourceOptions |-> initialSourceOptions,
   actualOptions |-> actualOptions, currentTheme |-> currentTheme,
   responsiveMaxWidth |-> responsiveMaxWidth, particles |-> particles,
   canvasWidth |-> canvasWidth, hostWidth |-> hostWidth,
   sizedOnInit |-> sizedOnInit, faulty |-> faulty,
   listeners |-> listeners, observing |-> observing, inDom |-> inDom,
   clickHandlers |-> clickHandlers, taps |-> taps, pending |-> pending,
   procs |-> procs,
   ret |-> None, sigs |-> <<>>, sigAt |-> <<>>, hooks |-> <<>>, sched |-> 0,
   updated |-> FALSE, frameTime |-> None, phases |-> {}, thrown |-> FALSE]

Commit(s) ==
  /\ destroyed' = s.destroyed /\ started' = s.started /\ paused' = s.paused
  /\ pageHidden' = s.pageHidden /\ firstStart' = s.firstStart
  /\ lastFrameTime' = s.lastFrameTime
  /\ drawAnimationFrame' = s.drawAnimationFrame
  /\ pathGenerators' = s.pathGenerators /\ plugins' = s.plugins
  /\ drawers' = s.drawers /\ options' = s.options
  /\ sourceOptions' = s.sourceOptions
  /\ initialSourceOptions' = s.initialSourceOptions
  /\ actualOptions' = s.actualOptions /\ currentTheme' = s.currentTheme
  /\ responsiveMaxWidth' = s.responsiveMaxWidth /\ particles' = s.particles
  /\ canvasWidth' = s.canvasWidth /\ hostWidth' = s.hostWidth
  /\ sizedOnInit' = s.sizedOnInit /\ faulty' = s.faulty
  /\ listeners' = s.listeners /\ observing' = s.observing /\ inDom' = s.inDom
  /\ clickHandlers' = s.clickHandlers /\ taps' = s.taps
  /\ pending' = s.pending
  /\ procs' = s.procs
  /\ UNCHANGED particle

\* the caps on the unbounded collections
Bounded(s) ==
  /\ Len(s.pending) <= MaxPending
  /\ Len(s.procs) <= MaxProcs
  /\ s.clickHandlers <= MaxHandlers

(* ----------------------------- helpers -------------------------------- *)
\* engine.dispatchEvent(type, {container})
Emit(s, sig) ==
  [s EXCEPT !.sigs = Append(@, sig),
            !.sigAt = Append(@, [started |-> s.started, paused |-> s.paused,
                                 destroyed |-> s.destroyed])]

\* a hook h of plug-in or collaborator p is invoked
Call(s, p, h) == [s EXCEPT !.hooks = Append(@, <<p, h>>)]

\* for (const [, plugin] of this.plugins) if (plugin.h) plugin.h()
CallPlugins(s, h) ==
  LET sel == SelectSeq(s.plugins, LAMBDA p : h \in PluginHooks[p])
  IN  [s EXCEPT !.hooks = @ \o [i \in 1..Len(sel) |-> <<sel[i], h>>]]

\* loadOptions(options, ...sources): later sources override earlier ones
Merge(a, b) ==
  [k \in DOMAIN a \cup DOMAIN b |-> IF k \in DOMAIN b THEN b[k] ELSE a[k]]

loadContainerOptions(srcs) ==
  LET RECURSIVE Fold(_, _)
      Fold(acc, i) == IF i > Len(srcs) THEN acc ELSE Fold(Merge(acc, srcs[i]), i + 1)
  IN  Fold(DefaultOptions, 1)

guardCheck(s) == ~s.destroyed

(* ------------------------ the animation frame ------------------------- *)
\* animate()(callback): the host hands out a handle no live request and no
\* stored handle uses
FreshHandle(s) ==
  CHOOSE h \in 1..(Len(s.pending) + 2) :
    /\ Some(h) # s.drawAnimationFrame
    /\ \A i \in 1..Len(s.pending) : s.pending[i].h # h

\* cancelAnimation()(handle): a request that has fired or was cancelled is
\* not in the queue any more, and cancelling it does nothing
cancelAnimation(s, handle) ==
  [s EXCEPT !.pending = SelectSeq(@, LAMBDA f : f.h # handle[1])]

draw(s, force) ==
  IF ~guardCheck(s) THEN s
  ELSE LET h == FreshHandle(s)
       IN  [s EXCEPT !.pending = Append(@, [h |-> h, refreshTime |-> force]),
                     !.drawAnimationFrame = Some(h),
                     !.sched = @ + 1]

getAnimationStatus(s) == ~s.paused /\ ~s.pageHidden /\ guardCheck(s)

pause(s) ==
  IF ~guardCheck(s) THEN s
  ELSE LET s1 == IF s.drawAnimationFrame # None
                 THEN [cancelAnimation(s, s.drawAnimationFrame)
                         EXCEPT !.drawAnimationFrame = None]
                 ELSE s
       IN  IF s1.paused THEN s1
           ELSE LET s2 == CallPlugins(s1, "pause")
                    s3 == IF ~s2.pageHidden THEN [s2 EXCEPT !.paused = TRUE] ELSE s2
                IN  Emit(s3, "containerPaused")

\* play that starts the animation on the first invocation too
playOnFirstStart(s, force) ==
  IF ~guardCheck(s) THEN s
  ELSE LET needsUpdate == s.paused \/ force
           s0 == [s EXCEPT !.firstStart = FALSE]
           s1 == IF s0.paused THEN [s0 EXCEPT !.paused = FALSE] ELSE s0
           s2 == IF needsUpdate THEN CallPlugins(s1, "play") ELSE s1
       IN  draw(Emit(s2, "containerPlay"), needsUpdate)

play(s, force) ==
  IF ~guardCheck(s) THEN s
  ELSE LET needsUpdate == s.paused \/ force
       IN  IF s.firstStart /\ ~s.actualOptions.autoPlay
           THEN [s EXCEPT !.firstStart = FALSE]
           ELSE LET s1 == IF s.paused THEN [s EXCEPT !.paused = FALSE] ELSE s
                    s2 == IF needsUpdate THEN CallPlugins(s1, "play") ELSE s1
                IN  draw(Emit(s2, "containerPlay"), needsUpdate)

(* ----------------------------- options -------------------------------- *)
\* Options.setResponsive(width, pxRatio, defaultOptions): reloads the given
\* options and then the override of the breakpoint the surface is below;
\* the result is <<resolved options, maxWidth of that breakpoint>>
setResponsive(width, defaultOptions) ==
  IF defaultOptions.responsive /\ Breakpoint.maxWidth > width
  THEN <<[defaultOptions EXCEPT !.number = Breakpoint.number],
         Some(Breakpoint.maxWidth)>>
  ELSE <<defaultOptions, None>>

\* updateActualOptions(): no guardCheck; the returned flag is in ret
updateActualOptions(s) ==
  LET r == setResponsive(s.canvasWidth, s.options)
      s1 == [s EXCEPT !.actualOptions = r[1]]
  IN  IF s1.responsiveMaxWidth # r[2]
      THEN [s1 EXCEPT !.responsiveMaxWidth = r[2], !.ret = Some(TRUE)]
      ELSE [s1 EXCEPT !.ret = Some(FALSE)]

(* --------------------------- path generators -------------------------- *)
\* addPath that forgets the override flag: a registered key is never replaced
addPathNeverOverrides(s, key, generator, override) ==
  IF ~guardCheck(s) \/ key \in DOMAIN s.pathGenerators
  THEN [s EXCEPT !.ret = Some(FALSE)]
  ELSE LET g == IF generator = None THEN defaultPathGenerator ELSE generator[1]
       IN  [s EXCEPT !.pathGenerators =
                        [k \in DOMAIN @ \cup {key} |-> IF k = key THEN g ELSE @[k]],
                     !.ret = Some(TRUE)]

addPath(s, key, generator, override) ==
  IF ~guardCheck(s) \/ (~override /\ key \in DOMAIN s.pathGenerators)
  THEN [s EXCEPT !.ret = Some(FALSE)]
  ELSE LET g == IF generator = None THEN defaultPathGenerator ELSE generator[1]
       IN  [s EXCEPT !.pathGenerators =
                        [k \in DOMAIN @ \cup {key} |-> IF k = key THEN g ELSE @[k]],
                     !.ret = Some(TRUE)]

\* setPath(pathOrGenerator, init, update); the first argument is None,
\* Some([kind |-> "function", generate |-> f]) or Some([kind |-> "object",
\* generate |-> .., init |-> .., update |-> ..]); init, update and an
\* object's members are function names, Undef when missing
setPath(s, pathOrGenerator, init, update) ==
  IF pathOrGenerator = None \/ ~guardCheck(s) THEN s
  ELSE LET d == defaultPathGenerator
           a == pathOrGenerator[1]
           Or(x, y) == IF x = Undef THEN y ELSE x
           g == IF a.kind = "function"
                THEN [generate |-> a.generate,
                      init |-> Or(init, d.init), update |-> Or(update, d.update)]
                ELSE [generate |-> Or(a.generate, d.generate),
                      init |-> Or(a.init, d.init),
                      update |-> Or(a.update, d.update)]
       IN  [addPath(s, defaultPathGeneratorKey, Some(g), TRUE) EXCEPT !.ret = None]

setNoise(s, noiseOrGenerator, init, update) ==
  IF ~guardCheck(s) THEN s ELSE setPath(s, noiseOrGenerator, init, update)

(* ------------------------------ stop / destroy ------------------------ *)
\* A Map iterator keeps its place in the entry list: after every key was
\* deleted it finds nothing, and entries set again later are all appended
\* behind its place, so a suspended loop over that map visits all of them.
RewindLoops(ps, pcs) ==
  [i \in 1..Len(ps) |-> IF ps[i].pc \in pcs THEN [ps[i] EXCEPT !.it = 0] ELSE ps[i]]

\* stop that leaves the plug-ins in the map
stopKeepsPlugins(s) ==
  IF ~s.started \/ ~guardCheck(s) THEN s
  ELSE LET s1 == [s EXCEPT !.firstStart = TRUE, !.started = FALSE,
                           !.listeners = FALSE]
           s2 == pause(s1)
           s3 == [s2 EXCEPT !.particles = 0, !.observing = FALSE]
           s4 == CallPlugins(s3, "stop")
           s5 == [s4 EXCEPT !.sourceOptions = s4.options]
       IN  Emit(s5, "containerStopped")

\* stop that keeps the resolved options, not the loaded ones, as the source
\* of the next start
stopKeepsActualOptions(s) ==
  IF ~s.started \/ ~guardCheck(s) THEN s
  ELSE LET s1 == [s EXCEPT !.firstStart = TRUE, !.started = FALSE,
                           !.listeners = FALSE]
           s2 == pause(s1)
           s3 == [s2 EXCEPT !.particles = 0, !.observing = FALSE]
           s4 == CallPlugins(s3, "stop")
           s5 == [s4 EXCEPT !.plugins = <<>>,
                            !.procs = RewindLoops(@, {"plugin", "pstart"}),
                            !.sourceOptions = s4.actualOptions]
       IN  Emit(s5, "containerStopped")

stop(s) ==
  IF ~s.started \/ ~guardCheck(s) THEN s
  ELSE LET s1 == [s EXCEPT !.firstStart = TRUE, !.started = FALSE,
                           !.listeners = FALSE]
           s2 == pause(s1)
           \* particles.clear(); canvas.clear(); intersectionObserver.unobserve
           s3 == [s2 EXCEPT !.particles = 0, !.observing = FALSE]
           s4 == CallPlugins(s3, "stop")
           s5 == [s4 EXCEPT !.plugins = <<>>,
                            !.procs = RewindLoops(@, {"plugin", "pstart"}),
                            !.sourceOptions = s4.options]
       IN  Emit(s5, "containerStopped")

destroy(s) ==
  IF ~guardCheck(s) THEN s
  ELSE LET s1 == stop(s)
           \* particles.destroy(); canvas.destroy()
           s2 == [s1 EXCEPT !.particles = 0]
           ds == SelectSeq(s2.drawers, LAMBDA d : "destroy" \in DrawerHooks[d])
           s3 == [s2 EXCEPT !.hooks = @ \o [i \in 1..Len(ds) |-> <<ds[i], "destroy">>]]
           s4 == [s3 EXCEPT !.drawers = <<>>,
                            !.procs = RewindLoops(@, {"drawer"})]
           s5 == Call(s4, "engine.plugins", "destroy")
           s6 == [s5 EXCEPT !.destroyed = TRUE, !.inDom = FALSE]
       IN  Emit(s6, "containerDestroyed")

(* ------------------------------ init / start -------------------------- *)
\* An async invocation that is suspended at an await:
\*   kind  "start" (start(), also through refresh/reset/loadTheme) or "init"
\*   pc    the await it is suspended at: "drawer" (await drawer.init),
\*         "plugin" (await plugin.initAsync), "await" (await this.init()),
\*         "pstart" (await plugin.startAsync)
\*   it    the place of the loop's Map iterator: entries visited so far
\*   ph    the initialization phases this invocation has completed
\*   aw    the plug-in whose async hook it awaits, "" at the other awaits
\* A segment of such a method runs from one await to the next; its result is
\* [s |-> the state, p |-> None when the method returned, else Some(proc)].
NewProc(kind) == [kind |-> kind, pc |-> "", it |-> 0, ph |-> {}, aw |-> ""]

\* a hook that is invoked throws, or the promise it returned rejects
Throws(s, g, h) == s.faulty = Some(<<g, h>>)

\* the exception ends init() and, through await this.init(), start()
Abort(s, p) == [s |-> [s EXCEPT !.thrown = TRUE, !.phases = p.ph], p |-> None]

\* Map.set of each key: a key already present keeps its place
SetKeys(map, keys) ==
  map \o SelectSeq(keys, LAMBDA k : \A i \in 1..Len(map) : map[i] # k)

\* init(), lines 464-497: up to the first loop that can await
InitHead(s) ==
  LET s1 == [s EXCEPT !.drawers = SetKeys(@, EngineShapes)]
      s2 == [s1 EXCEPT !.options =
                         loadContainerOptions(<<s.initialSourceOptions, s.sourceOptions>>)]
      s3 == [s2 EXCEPT !.actualOptions = loadContainerOptions(<<s2.options>>)]
      \* retina.init(); canvas.init(); updateActualOptions()
      c3 == [s3 EXCEPT !.canvasWidth = IF s.sizedOnInit THEN s.hostWidth ELSE @]
      s4 == [updateActualOptions(c3) EXCEPT !.ret = None]
      \* canvas.initBackground(); canvas.resize()
      s5 == [s4 EXCEPT !.canvasWidth = s4.hostWidth]
  IN  [s5 EXCEPT !.plugins = SetKeys(@, EnginePlugins)]

\* init(), lines 513-524, then the return of init
InitTail(s, p) ==
  LET s1 == Emit(s, "containerInit")
      \* particles.init(); particles.setDensity()
      s2 == [s1 EXCEPT !.particles = s1.actualOptions.number]
      s3 == Emit(CallPlugins(s2, "particlesSetup"), "particlesSetup")
      q  == [p EXCEPT !.ph = @ \cup {"particles"}]
  IN  IF q.kind = "init"
      THEN [s |-> [s3 EXCEPT !.phases = q.ph], p |-> None]
      ELSE [s |-> [s3 EXCEPT !.phases = q.ph],
            p |-> Some([q EXCEPT !.pc = "await", !.it = 0, !.aw = ""])]

\* init(), lines 505-511, from the iterator's place i
RECURSIVE PluginInitFrom(_, _, _)
PluginInitFrom(s, p, i) ==
  IF i >= Len(s.plugins) THEN InitTail(s, [p EXCEPT !.ph = @ \cup {"plugins"}])
  ELSE LET g == s.plugins[i + 1]
       IN  IF "init" \in PluginHooks[g]
           THEN IF Throws(s, g, "init") THEN Abort(Call(s, g, "init"), p)
                ELSE PluginInitFrom(Call(s, g, "init"), p, i + 1)
           ELSE IF "initAsync" \in PluginHooks[g]
           THEN [s |-> [Call(s, g, "initAsync") EXCEPT !.phases = p.ph],
                 p |-> Some([p EXCEPT !.pc = "plugin", !.it = i + 1, !.aw = g])]
           ELSE PluginInitFrom(s, p, i + 1)

\* init(), lines 499-503, from the iterator's place i
RECURSIVE DrawerInitFrom(_, _, _)
DrawerInitFrom(s, p, i) ==
  IF i >= Len(s.drawers)
  THEN PluginInitFrom(s, [p EXCEPT !.ph = @ \cup {"drawers"}], 0)
  ELSE LET d == s.drawers[i + 1]
       IN  IF "init" \in DrawerHooks[d]
           THEN [s |-> [Call(s, d, "init") EXCEPT !.phases = p.ph],
                 p |-> Some([p EXCEPT !.pc = "drawer", !.it = i + 1])]
           ELSE DrawerInitFrom(s, p, i + 1)

\* init() as called: by start() (kind "start") or by the embedder
init(s, kind) ==
  IF ~guardCheck(s)
  THEN [s |-> s, p |-> IF kind = "init" THEN None
                       ELSE Some([NewProc(kind) EXCEPT !.pc = "await"])]
  ELSE DrawerInitFrom(InitHead(s), NewProc(kind), 0)

\* start(), lines 712-714
StartTail(s, p) ==
  [s |-> [play(Emit(s, "containerStarted"), FALSE) EXCEPT !.phases = p.ph],
   p |-> None]

\* start(), lines 704-710, from the iterator's place i
RECURSIVE PluginStartFrom(_, _, _)
PluginStartFrom(s, p, i) ==
  IF i >= Len(s.plugins) THEN StartTail(s, [p EXCEPT !.ph = @ \cup {"pluginStart"}])
  ELSE LET g == s.plugins[i + 1]
       IN  IF "startAsync" \in PluginHooks[g]
           THEN [s |-> [Call(s, g, "startAsync") EXCEPT !.phases = p.ph],
                 p |-> Some([p EXCEPT !.pc = "pstart", !.it = i + 1, !.aw = g])]
           ELSE IF "start" \in PluginHooks[g]
           THEN IF Throws(s, g, "start") THEN Abort(Call(s, g, "start"), p)
                ELSE PluginStartFrom(Call(s, g, "start"), p, i + 1)
           ELSE PluginStartFrom(s, p, i + 1)

\* start(), lines 696-702: what follows await this.init()
StartAfterInit(s, p) ==
  LET s1 == [s EXCEPT !.started = TRUE, !.listeners = TRUE, !.observing = TRUE]
  IN  PluginStartFrom(s1, [p EXCEPT !.ph = @ \cup {"started"}], 0)

\* start without the check of the started flag
startWhenStarted(s) ==
  IF ~guardCheck(s) THEN [s |-> s, p |-> None]
  ELSE init(s, "start")

\* start that does not await init(): play() runs while init is suspended
startWithoutAwait(s) ==
  IF s.started \/ ~guardCheck(s) THEN [s |-> s, p |-> None]
  ELSE LET r == init(s, "start")
       IN  [s |-> play([r.s EXCEPT !.started = TRUE, !.listeners = TRUE,
                                   !.observing = TRUE], FALSE),
            p |-> r.p]

start(s) ==
  IF s.started \/ ~guardCheck(s) THEN [s |-> s, p |-> None]
  ELSE init(s, "start")

refresh(s) ==
  IF ~guardCheck(s) THEN [s |-> s, p |-> None]
  ELSE start(stop(s))

reset(s) ==
  IF ~guardCheck(s) THEN [s |-> s, p |-> None]
  ELSE refresh([s EXCEPT !.options = loadContainerOptions(<<>>)])

loadTheme(s, name) ==
  IF ~guardCheck(s) THEN [s |-> s, p |-> None]
  ELSE refresh([s EXCEPT !.currentTheme = name])

\* the continuation of a suspended invocation, from its await
Continue(s, p) ==
  CASE p.pc = "drawer" -> DrawerInitFrom(s, p, p.it)
    [] p.pc = "plugin" -> IF Throws(s, p.aw, "initAsync") THEN Abort(s, p)
                          ELSE PluginInitFrom(s, [p EXCEPT !.aw = ""], p.it)
    [] p.pc = "await"  -> StartAfterInit(s, p)
    [] p.pc = "pstart" -> IF Throws(s, p.aw, "startAsync") THEN Abort(s, p)
                          ELSE PluginStartFrom(s, [p EXCEPT !.aw = ""], p.it)

(* --------------------------- the frame manager ------------------------ *)
\* FrameManager.nextFrame(timestamp): a frame closer than FrameInterval to
\* the last accepted one is not simulated and only requests the next one;
\* an accepted frame updates the particles with the elapsed time (none when
\* lastFrameTime is undefined) and requests the next one while the
\* container is animating.  frameTime is the lastFrameTime the frame found.
nextFrame(s, timestamp) ==
  LET s0 == [s EXCEPT !.frameTime = Some(s.lastFrameTime)]
  IN  IF s0.lastFrameTime # None /\ timestamp < s0.lastFrameTime[1] + FrameInterval
      THEN draw(s0, FALSE)
      ELSE LET s1 == [s0 EXCEPT !.lastFrameTime = Some(timestamp),
                                !.updated = TRUE]
           IN  IF getAnimationStatus(s1) THEN draw(s1, FALSE) ELSE s1

\* the callback draw() hands to animate(), lines 393-401
frameCallback(s, refreshTime, timestamp) ==
  nextFrame(IF refreshTime THEN [s EXCEPT !.lastFrameTime = None] ELSE s, timestamp)

(* ------------------------- the other handlers ------------------------- *)
\* addClickHandler(callback): the element exists; one more set of listeners,
\* whose closure starts with touched = false and touchMoved = false
addClickHandler(s) ==
  IF ~guardCheck(s) THEN s
  ELSE [s EXCEPT !.clickHandlers = @ + 1,
                 !.taps = Append(@, [touched |-> FALSE, touchMoved |-> FALSE])]

\* The listeners of the k-th closure.  A touch event carries the list of the
\* touches still on the surface and the list of those that changed.
clickOrTouchHandler(s) ==
  IF ~guardCheck(s) THEN s
  ELSE Call(Call(s, "particles.quadTree", "queryCircle"), "callback", "invoke")

clickHandler(s) ==
  IF ~guardCheck(s) THEN s ELSE clickOrTouchHandler(s)

touchStartHandler(s, k) ==
  IF ~guardCheck(s) THEN s
  ELSE [s EXCEPT !.taps[k] = [touched |-> TRUE, touchMoved |-> FALSE]]

touchMoveHandler(s, k) ==
  IF ~guardCheck(s) THEN s
  ELSE [s EXCEPT !.taps[k].touchMoved = TRUE]

\* touches[touches.length - 1], else changedTouches[changedTouches.length - 1]
LastTouch(e) ==
  IF e.touches # <<>> THEN Some(e.touches[Len(e.touches)])
  ELSE IF e.changedTouches # <<>> THEN Some(e.changedTouches[Len(e.changedTouches)])
  ELSE None

touchEndHandler(s, k, e) ==
  IF ~guardCheck(s) THEN s
  ELSE IF s.taps[k].touched /\ ~s.taps[k].touchMoved
       THEN IF LastTouch(e) = None THEN s
            ELSE [clickOrTouchHandler(s) EXCEPT
                    !.taps[k] = [touched |-> FALSE, touchMoved |-> FALSE]]
       ELSE [s EXCEPT !.taps[k] = [touched |-> FALSE, touchMoved |-> FALSE]]

touchCancelHandler(s, k) ==
  IF ~guardCheck(s) THEN s
  ELSE [s EXCEPT !.taps[k] = [touched |-> FALSE, touchMoved |-> FALSE]]

\* el.dispatchEvent: the event reaches the listeners of its type, in the order
\* they were added, from the k-th closure's on
RECURSIVE dispatchEvent(_, _, _, _)
dispatchEvent(s, type, e, k) ==
  IF k > Len(s.taps) THEN s
  ELSE LET s1 == CASE type = "click" -> clickHandler(s)
                   [] type = "touchstart" -> touchStartHandler(s, k)
                   [] type = "touchmove" -> touchMoveHandler(s, k)
                   [] type = "touchend" -> touchEndHandler(s, k, e)
                   [] type = "touchcancel" -> touchCancelHandler(s, k)
       IN  dispatchEvent(s1, type, e, k + 1)

handleClickMode(s, mode) ==
  IF ~guardCheck(s) THEN s
  ELSE CallPlugins(Call(s, "particles", "handleClickMode"), "handleClickMode")

\* intersectionManager(entries) for one entry of the observed element;
\* actualOptions.pauseOnOutsideViewport keeps its default, true
intersectionManager(s, isIntersecting) ==
  IF isIntersecting THEN play(s, FALSE) ELSE pause(s)

\* EventListeners' visibility handler: the page was hidden or shown again
handleVisibilityChange(s, hidden) ==
  IF hidden THEN pause([s EXCEPT !.pageHidden = TRUE])
  ELSE LET s1 == [s EXCEPT !.pageHidden = FALSE]
       IN  IF getAnimationStatus(s1) THEN play(s1, TRUE) ELSE s1

\* EventListeners' resize handler: the surface is measured again and the
\* options are resolved for the new size
handleWindowResize(s) ==
  [updateActualOptions([s EXCEPT !.canvasWidth = s.hostWidth]) EXCEPT !.ret = None]

(* ---------------------------- ColorUpdater ---------------------------- *)
\* NumberUtils.randomInRange(min, max): the values it may return
randomInRange(min, max) == min..max

\* isEnabled that does not look at the spawning flag
isEnabledWhileSpawning(p) ==
  ~p.destroyed /\ p.value # None /\ p.enable

isEnabled(p) ==
  ~p.destroyed /\ ~p.spawning /\ p.value # None /\ p.enable

\* update(particle, delta), with the offset that randomInRange returned
update(p, factor, offset) ==
  IF ~isEnabled(p) THEN p
  ELSE IF p.value = None THEN p
  ELSE LET velocity == IF p.velocity = None THEN 0 ELSE p.velocity[1]
           h == p.value[1] + velocity * factor + offset * OffsetStep
       IN  [p EXCEPT !.value = Some(IF h > FullTurn THEN h - FullTurn ELSE h)]

(* ------------------------------- Init --------------------------------- *)
\* the constructor, lines 165-204
Constructed(choices) ==
  /\ destroyed = FALSE /\ started = FALSE /\ paused = TRUE
  /\ pageHidden = FALSE /\ firstStart = TRUE
  /\ lastFrameTime = Some(0) /\ drawAnimationFrame = None
  /\ pathGenerators = [k \in {} |-> defaultPathGenerator]
  /\ plugins = <<>> /\ drawers = <<>>
  /\ initialSourceOptions \in choices
  /\ sourceOptions = initialSourceOptions
  /\ options = loadContainerOptions(<<>>)
  /\ actualOptions = loadContainerOptions(<<>>)
  /\ currentTheme = None /\ responsiveMaxWidth = None
  \* no element is measured yet; the host element is a wide one
  /\ particles = 0 /\ canvasWidth = 0 /\ hostWidth = Breakpoint.maxWidth
  \* without a breakpoint in the options the canvas width is never read
  /\ sizedOnInit \in IF "responsive" \in DOMAIN initialSourceOptions
                     THEN BOOLEAN ELSE {TRUE}
  /\ listeners = FALSE /\ observing = FALSE /\ inDom = TRUE
  /\ clickHandlers = 0 /\ taps = <<>> /\ pending = <<>> /\ procs = <<>>

Init == Constructed(SourceChoices) /\ particle = StillParticle /\ faulty = None
\* a container whose options may hold a responsive breakpoint
InitApi ==
  Constructed(ResponsiveChoices) /\ particle = StillParticle /\ faulty = None
\* a particle of any kind, in a container that is left alone
InitColor ==
  Constructed({NoOptions}) /\ particle \in ParticleChoices /\ faulty = None
\* a container of an engine one of whose plug-ins may have a faulty hook
InitFaults ==
  Constructed(SourceChoices) /\ particle = StillParticle /\ faulty \in FaultChoices

(* ------------------------------ actions ------------------------------- *)
\* a synchronous handler ran as one step
Do(s) == Bounded(s) /\ Commit(s)

\* the state an async method leaves when its first segment has run: the
\* invocation is suspended if the segment ended at an await
Suspended(r) ==
  [r.s EXCEPT !.procs = IF r.p = None THEN @ ELSE Append(@, r.p[1])]

\* the state a suspended invocation, the k-th, leaves when it has run on to
\* its next await or to its return
Resumed(s, k) ==
  LET r == Continue(s, s.procs[k])
  IN  [r.s EXCEPT !.procs = IF r.p = None
                            THEN SubSeq(@, 1, k - 1) \o SubSeq(@, k + 1, Len(@))
                            ELSE [@ EXCEPT ![k] = r.p[1]]]

\* A method suspended at await this.init() resumes in a microtask: before it
\* does, only code that is already running can call the container; no frame
\* and no event of the host comes in between.
MicrotaskPending == \E i \in 1..Len(procs) : procs[i].pc = "await"

Start == Do(Suspended(start(St)))
Stop == Do(stop(St))
Pause == Do(pause(St))
Play == \E force \in BOOLEAN : Do(play(St, force))
Refresh == Do(Suspended(refresh(St)))
Reset == Do(Suspended(reset(St)))
InitCall == Do(Suspended(init(St, "init")))
LoadTheme == \E name \in {None, Some("dark")} : Do(Suspended(loadTheme(St, name)))
Draw == \E force \in BOOLEAN : Do(draw(St, force))
Destroy == Do(destroy(St))
UpdateActualOptions == Do(updateActualOptions(St))
AddPath ==
  \E key \in PathKeys, generator \in {None, Some(UserGenerator)}, override \in BOOLEAN :
    Do(addPath(St, key, generator, override))
PathArgs ==
  { None,
    Some([kind |-> "function", generate |-> "usr"]),
    Some([kind |-> "object", generate |-> "usr", init |-> Undef, update |-> "usr"]) }
SetPath ==
  \E a \in PathArgs, i \in {Undef, "usr"} : Do(setPath(St, a, i, Undef))
SetNoise ==
  \E a \in PathArgs, i \in {Undef, "usr"} : Do(setNoise(St, a, i, Undef))
AddClickHandler == Do(addClickHandler(St))
HandleClickMode == Do(handleClickMode(St, "push"))

\* the events the host dispatches to the element: the touch lists of a touch
\* event hold at most the one finger of a tap
TouchLists == {<<>>, <<"finger">>}
TouchEvents == {[touches |-> a, changedTouches |-> b] : a, b \in TouchLists}
NoTouches == [touches |-> <<>>, changedTouches |-> <<>>]
Click == Do(dispatchEvent(St, "click", NoTouches, 1))
TouchStart == Do(dispatchEvent(St, "touchstart", NoTouches, 1))
TouchMove == Do(dispatchEvent(St, "touchmove", NoTouches, 1))
TouchEnd == \E e \in TouchEvents : Do(dispatchEvent(St, "touchend", e, 1))
TouchCancel == Do(dispatchEvent(St, "touchcancel", NoTouches, 1))

\* a suspended invocation resumes
Resume == \E k \in 1..Len(procs) : Do(Resumed(St, k))

\* the host runs the oldest requested animation frame
Fired(s) ==
  frameCallback([s EXCEPT !.pending = Tail(@)], Head(s.pending).refreshTime, HostNow)

Tick ==
  /\ pending # <<>>
  /\ ~MicrotaskPending
  /\ Do(Fired(St))

\* the host's clock reaches the next display frame, a FrameInterval or more
\* after the last one
AdvanceClock ==
  /\ lastFrameTime # None
  /\ lastFrameTime[1] > HostNow - FrameInterval
  /\ Do([St EXCEPT !.lastFrameTime = Some(HostNow - FrameInterval)])

Intersection ==
  /\ observing
  /\ ~MicrotaskPending
  /\ \E isIntersecting \in BOOLEAN :
       Do(intersectionManager(St, isIntersecting))

VisibilityChange ==
  /\ listeners
  /\ ~MicrotaskPending
  /\ \E hidden \in BOOLEAN : Do(handleVisibilityChange(St, hidden))

\* the host element gets another width; the container hears of it while its
\* listeners are attached
HostResize ==
  /\ ~MicrotaskPending
  /\ \E w \in Widths \ {hostWidth} :
       LET s1 == [St EXCEPT !.hostWidth = w]
       IN  Do(IF listeners THEN handleWindowResize(s1) ELSE s1)

\* a frame's ColorUpdater.update on the particle
ColorUpdate ==
  \E factor \in Factors,
     offset \in randomInRange(particle.offset.min, particle.offset.max) :
    LET p == update(particle, factor, offset)
    IN  /\ p.value # None =>
             (p.value[1] >= -(MaxTurns * FullTurn) /\ p.value[1] <= MaxTurns * FullTurn)
        /\ particle' = p
        /\ UNCHANGED <<cvars, envvars>>

\* The life cycle and the frame loop: the handlers that start, stop, pause
\* and resume the animation, the frames, and the host's events.
Next ==
  \/ Start \/ Stop \/ Pause \/ Play \/ Refresh \/ Draw \/ Destroy
  \/ Resume \/ Tick \/ AdvanceClock \/ Intersection \/ VisibilityChange

Spec == Init /\ [][Next]_vars

\* Options, themes and click handling, over a container that is started,
\* stopped and destroyed while its host element is resized.
NextApi ==
  \/ Start \/ Stop \/ Resume \/ Destroy
  \/ Reset \/ InitCall \/ LoadTheme \/ UpdateActualOptions \/ HostResize
  \/ AddClickHandler \/ HandleClickMode

SpecApi == InitApi /\ [][NextApi]_vars

\* The registry of path generators.
NextPaths == AddPath \/ SetPath \/ SetNoise \/ Destroy

SpecPaths == Init /\ [][NextPaths]_vars

\* Starting, stopping and destroying a container whose plug-ins may throw.
NextFaults == Start \/ Resume \/ Stop \/ Pause \/ Destroy

SpecFaults == InitFaults /\ [][NextFaults]_vars

\* Clicks and touches on the element of a container that is started, stopped
\* and destroyed.
NextTouch ==
  \/ AddClickHandler \/ Click \/ TouchStart \/ TouchMove \/ TouchEnd \/ TouchCancel
  \/ Start \/ Resume \/ Stop \/ Destroy

SpecTouch == Init /\ [][NextTouch]_vars

\* The color updater over the frames of one particle.
NextColor == ColorUpdate

SpecColor == InitColor /\ [][NextColor]_vars

(* ======================================================================= *)
(* Properties.  A handler is a function of the state, so a property of a    *)
(* call is stated of the handler applied to every reachable state.         *)
(* ======================================================================= *)
\* the call left the state as it was, requested no frame, invoked no hook
\* and dispatched no event (the value it returned aside)
Quiet(s) == [s EXCEPT !.ret = None] = St
QuietAsync(r) == r.p = None /\ Quiet(r.s)

AllPhases == {"drawers", "plugins", "particles", "started", "pluginStart"}

\* C1: on a destroyed container every public operation leaves the whole
\* state as it was, requests no frame, invokes no hook and dispatches no
\* event.
C1_DestroyedIsNoOp ==
  destroyed =>
    /\ QuietAsync(start(St)) /\ Quiet(stop(St)) /\ Quiet(pause(St))
    /\ \A force \in BOOLEAN : Quiet(play(St, force)) /\ Quiet(draw(St, force))
    /\ QuietAsync(refresh(St)) /\ QuietAsync(reset(St))
    /\ QuietAsync(init(St, "init"))
    /\ \A key \in PathKeys, g \in {None, Some(UserGenerator)}, o \in BOOLEAN :
         Quiet(addPath(St, key, g, o))
    /\ \A a \in PathArgs, i \in {Undef, "usr"} :
         Quiet(setPath(St, a, i, Undef)) /\ Quiet(setNoise(St, a, i, Undef))
    /\ Quiet(addClickHandler(St)) /\ Quiet(handleClickMode(St, "push"))
    /\ \A name \in {None, Some("dark")} : QuietAsync(loadTheme(St, name))
    /\ Quiet(updateActualOptions(St))
    /\ Quiet(destroy(St))

\* a frame that advances the particles: the particle update ran on a
\* collection that is not empty, with time elapsed since the last frame
Advances(s) == s.updated /\ s.particles > 0 /\ s.frameTime # Some(None)

\* C2: once pause() or destroy() has returned, a frame that fires while the
\* container is paused or destroyed does not advance any particle, whatever
\* calls came before.
C2_NoAdvanceWhilePaused ==
  ~destroyed =>
    \A s1 \in {pause(St), destroy(St)} :
      (s1.pending # <<>> /\ (s1.paused \/ s1.destroyed)) => ~Advances(Fired(s1))

\* C3: start() on a started or destroyed container, and stop() on a
\* container that is not started or is destroyed, change nothing, run no
\* initialization, invoke no hook and dispatch no event.
C3_StartStopNoOp ==
  /\ (started \/ destroyed) => QuietAsync(start(St))
  /\ (~started \/ destroyed) => Quiet(stop(St))

\* start() was called on a started container that is animating, and stop()
\* on one that is not started
C3_Witness ==
  /\ started /\ ~destroyed /\ pending # <<>> /\ QuietAsync(start(St))
  /\ procs = <<>>

\* C4: an invocation of start() requests its first frame only in the
\* segment that ends it, when all its initialization phases are completed:
\* the drawers' and the plug-ins' init hooks, the particles, started = true
\* and the plug-ins' start hooks.  The segment start() runs when called
\* requests none.
C4_InitBeforeFirstTick ==
  /\ start(St).s.sched = 0
  /\ \A k \in 1..Len(procs) :
       LET r == Continue(St, procs[k])
       IN  (procs[k].kind = "start" /\ r.s.sched > 0) =>
             (r.p = None /\ r.s.phases = AllPhases)

\* a suspended start() is about to request the first frame
C4_Witness ==
  \E k \in 1..Len(procs) :
    procs[k].kind = "start" /\ Continue(St, procs[k]).s.sched > 0

\* C5: after pause(), stop() or destroy() on a live container no requested
\* frame is left pending.
C5_NothingPendingAfterPause ==
  ~destroyed =>
    /\ pause(St).pending = <<>>
    /\ stop(St).pending = <<>>
    /\ destroy(St).pending = <<>>

\* C6: at most one requested frame is pending, and drawAnimationFrame holds
\* its handle.
C6_OnePendingFrame ==
  /\ Len(pending) <= 1
  /\ pending # <<>> => drawAnimationFrame = Some(pending[1].h)

\* C7: with auto-play disabled in the resolved options, the first play()
\* (firstStart set: after construction or after a stop) only clears
\* firstStart, and the play() after it clears paused, requests a frame and
\* dispatches containerPlay; in every other case play() does that at once.
Plays(s) == ~s.paused /\ s.sched = 1 /\ s.sigs = <<"containerPlay">>

NextFrameRefreshes(s) == s.sched > 0 => Head(s.pending).refreshTime

C8_ResumeFrameHasNoElapsedTime ==
  pending = <<>> =>
  /\ ~destroyed =>
       \A force \in BOOLEAN :
         (paused \/ force) => NextFrameRefreshes(play(St, force))
  /\ \A k \in 1..Len(procs) :
       procs[k].kind = "start" => NextFrameRefreshes(Continue(St, procs[k]).s)

\* C9: a pause() while the page is hidden is remembered: after it, and when
\* the page is shown again, the container is paused.
C9_PauseWhileHiddenRemembered ==
  (pageHidden /\ ~destroyed) =>
    LET s1 == pause(St)
        s2 == [s1 EXCEPT !.pageHidden = FALSE]
    IN  s1.paused /\ s2.paused /\ ~getAnimationStatus(s2)

\* C10: addPath refuses (returns false, map unchanged) on a destroyed
\* container and for a registered key without override; otherwise it
\* returns true and binds the key to the generator, or to the built-in one
\* when none is given, and no other binding changes.  Nothing but the map
\* changes.
C10_AddPath ==
  \A key \in PathKeys, g \in {None, Some(UserGenerator)}, o \in BOOLEAN :
    LET s1 == addPath(St, key, g, o)
        m == s1.pathGenerators
    IN  /\ [s1 EXCEPT !.ret = None, !.pathGenerators = pathGenerators] = St
        /\ IF destroyed \/ (key \in DOMAIN pathGenerators /\ ~o)
           THEN s1.ret = Some(FALSE) /\ m = pathGenerators
           ELSE /\ s1.ret = Some(TRUE)
                /\ DOMAIN m = DOMAIN pathGenerators \cup {key}
                /\ m[key] = IF g = None THEN defaultPathGenerator ELSE UserGenerator
                /\ \A k \in DOMAIN pathGenerators \ {key} : m[k] = pathGenerators[k]

\* a key was registered with the caller's generator and then with the
\* built-in one, by override; another key is registered too
C10_Witness ==
  /\ ~destroyed
  /\ DOMAIN pathGenerators = {"curl", "perlin"}
  /\ pathGenerators["curl"] = defaultPathGenerator
  /\ pathGenerators["perlin"] = UserGenerator

\* C11: the map of path generators always holds the key "default", so on a
\* live container addPath("default", generator, false) returns false and
\* leaves the registered default generator as it is.
C11_DefaultAlwaysPresent ==
  ~destroyed =>
    LET s1 == addPath(St, defaultPathGeneratorKey, Some(UserGenerator), FALSE)
    IN  /\ defaultPathGeneratorKey \in DOMAIN pathGenerators
        /\ s1.ret = Some(FALSE)
        /\ s1.pathGenerators = pathGenerators

\* C12: a hue that starts in [0, 360) stays in [0, 360) whatever updates are
\* applied to it.
C12_HueInRange ==
  particle.value # None =>
    (particle.value[1] >= 0 /\ particle.value[1] < FullTurn)

\* C13: an update whose delta.factor is 0 or negative leaves the hue as it
\* was, for every offset range.
C13_NoChangeWithoutElapsedTime ==
  \A factor \in {f \in Factors : f <= 0},
     offset \in randomInRange(particle.offset.min, particle.offset.max) :
    update(particle, factor, offset).value = particle.value

\* C18: isEnabled is true exactly for a particle that is not destroyed, is
\* not spawning, has a color value and has the color animation enabled, and
\* update leaves a particle that is not enabled as it is, whole.
C18_IsEnabled ==
  /\ isEnabled(particle) \in BOOLEAN
  /\ isEnabled(particle) <=>
       (/\ ~particle.destroyed /\ ~particle.spawning
        /\ particle.value # None /\ particle.enable)
  /\ ~isEnabled(particle) =>
       \A factor \in Factors,
          offset \in randomInRange(particle.offset.min, particle.offset.max) :
         update(particle, factor, offset) = particle

\* a spawning particle that has a color value, a velocity, an offset range
\* and the animation enabled: only the spawning flag disables it
C18_Witness ==
  /\ particle.spawning /\ ~particle.destroyed /\ particle.enable
  /\ particle.value # None /\ particle.velocity # None
  /\ particle.offset.max > 0
  /\ ~isEnabled(particle)

\* an async method run to its return with nothing in between: every await
\* resolves at once
RECURSIVE Complete(_)
Complete(r) == IF r.p = None THEN r.s ELSE Complete(Continue(r.s, r.p[1]))

\* stop() followed immediately by start(), as refresh() does
Restart(s) ==
  Complete(start(stop([s EXCEPT !.sigs = <<>>, !.sigAt = <<>>, !.hooks = <<>>])))

Only(seq, set) == SelectSeq(seq, LAMBDA x : x \in set)

\* C15: destroy() on a live container stops it first, then calls the
\* drawers' and the plug-ins' destroy hooks, and then marks it destroyed and
\* dispatches the destroyed event, once; on return started is false, the
\* plug-in and drawer maps are empty and the container is not in the
\* engine's registry.  On a destroyed container it dispatches nothing.
C15_Destroy ==
  LET s1 == destroy(St)
  IN  IF destroyed THEN s1.sigs = <<>> /\ s1.destroyed
      ELSE /\ s1.destroyed /\ ~s1.started /\ ~s1.inDom
           /\ s1.plugins = <<>> /\ s1.drawers = <<>>
           /\ s1.particles = 0
           /\ Only(s1.sigs, {"containerStopped", "containerDestroyed"}) =
                (IF started THEN <<"containerStopped">> ELSE <<>>)
                  \o <<"containerDestroyed">>
           /\ s1.hooks # <<>>
           /\ s1.hooks[Len(s1.hooks)] = <<"engine.plugins", "destroy">>

\* every event of a handler's run was dispatched under the state it
\* announces, and within a start the init and particles-setup events come
\* before the started one
Announced(s) ==
  /\ \A i \in 1..Len(s.sigs) :
       /\ s.sigs[i] = "containerStarted" => s.sigAt[i].started
       /\ s.sigs[i] = "containerPlay" => ~s.sigAt[i].paused
       /\ s.sigs[i] = "containerPaused" => s.sigAt[i].paused
       /\ s.sigs[i] = "containerStopped" => ~s.sigAt[i].started
       /\ s.sigs[i] = "containerDestroyed" => s.sigAt[i].destroyed
  /\ \A i, j \in 1..Len(s.sigs) :
       (s.sigs[i] = "containerStarted"
          /\ s.sigs[j] \in {"containerInit", "particlesSetup"}) => j < i

\* C17: every lifecycle event is dispatched after the state change it
\* announces: started with started = true, played with paused = false,
\* paused with paused = true, stopped with started = false, destroyed with
\* destroyed = true; init and particles-setup precede started.
C17_SignalsFollowState ==
  /\ Announced(start(St).s) /\ Announced(stop(St)) /\ Announced(destroy(St))
  /\ Announced(pause(St))
  /\ \A force \in BOOLEAN : Announced(play(St, force))
  /\ \A k \in 1..Len(procs) : Announced(Continue(St, procs[k]).s)

\* the hooks h of the plug-ins of a map that expose it, in the map's order
HooksOf(map, h) ==
  LET sel == SelectSeq(map, LAMBDA g : h \in PluginHooks[g])
  IN  [i \in 1..Len(sel) |-> <<sel[i], h>>]

\* C19: stop() on a started container invokes the stop hook of every
\* plug-in of the map that has one, once and in the map's order, and empties
\* the map; on return started is false, firstStart is true and the
\* listeners are detached.  The next start() fills the map with the
\* engine's plug-ins before it awaits anything, and it is still that map
\* when the start returns.
C19_StopCascades ==
  (started /\ ~destroyed) =>
    LET s1 == stop(St)
        r == start([s1 EXCEPT !.hooks = <<>>])
    IN  /\ Only(s1.hooks, {<<g, "stop">> : g \in DOMAIN PluginHooks})
             = HooksOf(plugins, "stop")
        /\ s1.plugins = <<>>
        /\ ~s1.started /\ s1.firstStart /\ ~s1.listeners /\ ~s1.observing
        /\ r.p # None
        /\ r.s.plugins = EnginePlugins
        /\ \A i \in 1..Len(r.s.hooks) :
             r.s.hooks[i][1] \in DOMAIN PluginHooks =>
               \E k \in 1..Len(r.s.plugins) : r.s.plugins[k] = r.s.hooks[i][1]
        /\ Complete(r).plugins = EnginePlugins

\* a running container whose plug-ins all have a stop hook
C19_Witness ==
  /\ started /\ ~destroyed /\ ~paused /\ procs = <<>>
  /\ plugins = EnginePlugins
  /\ Len(HooksOf(plugins, "stop")) = Len(EnginePlugins)

\* the hooks among hs that each plug-in of a map exposes, plug-in by plug-in
\* in the map's order
RECURSIVE ExposedFrom(_, _, _)
ExposedFrom(map, hs, i) ==
  IF i > Len(map) THEN <<>>
  ELSE LET own == SelectSeq(hs, LAMBDA h : h \in PluginHooks[map[i]])
       IN  [k \in 1..Len(own) |-> <<map[i], own[k]>>] \o ExposedFrom(map, hs, i + 1)

\* C20: a start() that runs to its end invokes, plug-in by plug-in in
\* registration order, every init hook (init, initAsync) each plug-in
\* exposes, and then every start hook (start, startAsync) each exposes: both
\* variants where a plug-in has both.
C20_AllHooksInvoked ==
  (~started /\ ~destroyed /\ procs = <<>>) =>
    LET s1 == Complete(start(St))
        InitHooks == {<<g, h>> : g \in DOMAIN PluginHooks, h \in {"init", "initAsync"}}
        StartHooks == {<<g, h>> : g \in DOMAIN PluginHooks, h \in {"start", "startAsync"}}
    IN  /\ Only(s1.hooks, InitHooks)
             = ExposedFrom(EnginePlugins, <<"init", "initAsync">>, 1)
        /\ Only(s1.hooks, StartHooks)
             = ExposedFrom(EnginePlugins, <<"start", "startAsync">>, 1)

\* C16: when a plug-in's init or start hook throws during start(), the
\* start ends there with the exception, and the container is left not
\* started: started is false, no frame is requested and no started event is
\* dispatched.
C16_FailedStartNotStarted ==
  \A r \in {start(St)} \cup
           {Continue(St, procs[k]) : k \in {i \in 1..Len(procs) : procs[i].kind = "start"}} :
    r.s.thrown =>
      /\ r.p = None
      /\ ~r.s.started
      /\ r.s.sched = 0
      /\ \A i \in 1..Len(r.s.sigs) : r.s.sigs[i] # "containerStarted"

\* every suspended invocation resumes in turn, the oldest first, until each
\* one has returned: every await resolves and nothing else calls in between
RECURSIVE Settle(_)
Settle(s) == IF s.procs = <<>> THEN s ELSE Settle(Resumed(s, 1))

\* how many times x occurs in a sequence
Count(seq, x) == Len(SelectSeq(seq, LAMBDA y : y = x))

\* C21: when start() or refresh() is called while an earlier start() is
\* suspended at the await of an initialization hook, the two invocations
\* together still initialize once: from that call on, until both have
\* returned, the init event and the started event are dispatched at most
\* once and each plug-in's start hook is invoked at most once.
C21_OverlappingStartsInitOnce ==
  \A k \in 1..Len(procs) :
    (procs[k].kind = "start" /\ procs[k].pc \in {"drawer", "plugin"}) =>
      \A r \in {start(St), refresh(St)} :
        LET s == Settle(Suspended(r))
        IN  /\ Count(s.sigs, "containerInit") <= 1
            /\ Count(s.sigs, "containerStarted") <= 1
            /\ \A i \in 1..Len(EnginePlugins) :
                 /\ Count(s.hooks, <<EnginePlugins[i], "start">>) <= 1
                 /\ Count(s.hooks, <<EnginePlugins[i], "startAsync">>) <= 1
\* C22: in every reachable state a destroyed container is not started and
\* its input listeners are not attached, whatever the interleaving of
\* destroy() with a start() that is suspended at an await.
C22_DestroyedNotStarted ==
  destroyed => (~started /\ ~listeners)
\* the callback of addClickHandler was invoked in the run
Invoked(s) == Count(s.hooks, <<"callback", "invoke">>) > 0

\* the closure's tap state after a reset
NoTap == [touched |-> FALSE, touchMoved |-> FALSE]

\* the next event's run, after the one that left s
After(s) == [s EXCEPT !.hooks = <<>>]

\* C23: of a registered handler's touch listeners only touchend invokes the
\* callback, and only when a touchstart came since the last touchend or
\* touchcancel and no touchmove since; every touchend and every touchcancel
\* resets the tap state, so the touchend that follows one at once invokes
\* nothing, and on a destroyed container no listener invokes anything.
C23_TouchTap ==
  \A k \in 1..Len(taps) :
    /\ ~Invoked(touchStartHandler(St, k))
    /\ ~Invoked(touchMoveHandler(St, k))
    /\ ~Invoked(touchCancelHandler(St, k))
    /\ destroyed => ~Invoked(clickHandler(St))
    /\ \A e \in TouchEvents :
         /\ Invoked(touchEndHandler(St, k, e)) =>
              (~destroyed /\ taps[k].touched /\ ~taps[k].touchMoved)
         /\ ~Invoked(touchEndHandler(After(touchMoveHandler(St, k)), k, e))
         /\ ~Invoked(touchEndHandler(After(touchCancelHandler(St, k)), k, e))
         /\ ~destroyed =>
              /\ touchCancelHandler(St, k).taps[k] = NoTap
              /\ touchEndHandler(St, k, e).taps[k] = NoTap
         /\ \A e2 \in TouchEvents :
              ~Invoked(touchEndHandler(After(touchEndHandler(St, k, e)), k, e2))

====
